---- MODULE Spec2Model ----
(***************************************************************************)
(* Model of src/main.ts: the RoleBasedCooperation workflow                 *)
(*   planner -> roleAssigner -> executor (loop) -> reporter -> END         *)
(* run over a LangGraph StateGraph built from AgentStateSchema.            *)
(*                                                                         *)
(* A JavaScript object is a TLA+ record whose DOMAIN is the set of keys    *)
(* the object has: Planner.run builds {description: task}, a record        *)
(* without a "role" key, and an optional field is present exactly when its *)
(* key is in the DOMAIN.  A JavaScript array is a sequence; the 0-based   *)
(* index i of the source is position i + 1 here.                           *)
(*                                                                         *)
(* What an LLM replies is untyped JSON until a schema has parsed it.  A    *)
(* JSON value is a one-field record whose field names its type:            *)
(*   [str |-> "a"]  [num |-> 7]  [null |-> TRUE]  [arr |-> <<...>>]        *)
(*   [obj |-> [key |-> value, ...]]                                        *)
(* A schema's parse turns accepted JSON into the typed records above.      *)
(***************************************************************************)
EXTENDS Integers, Sequences, FiniteSets, TLC

VARIABLES
    pc,            \* where the run stands: the node to run next, or idle/end/done/failed
    state,         \* the AgentState threaded through the graph
    step,          \* supersteps (node executions) taken by graph.invoke in this run
    ret,           \* what run() returned: <<>> (nothing yet) or <<finalReport>>
    error,         \* the error run() rejected with, "" when none
    nodeRuns,      \* history: how often each node function was entered in this run
    outputs,       \* history: the strings Executor.run returned, in call order
    executed,      \* history: the index executeTask read tasks at, one per pass,
                   \*   the passes that throw included
    reporterInput, \* history: the (query, results) arguments of Reporter.run calls
    decomposed,    \* history: <<values>> the decomposer returned in this run, else <<>>
    returned,      \* history: <<the JSON task objects>> of the reply RoleAssigner.run
                   \*   parsed, kept until the next node runs, else <<>>
    lastOutcome,   \* history: how the previous run() on this instance ended
    proc           \* the process: who calls run(), process.argv[2], what was
                   \*   printed, the exit status once the script has ended

vars == <<pc, state, step, ret, error, nodeRuns, outputs, executed, reporterInput,
          decomposed, returned, lastOutcome, proc>>

(***************************************************************************)
(* Bounds of the model and the program's constant.                         *)
(***************************************************************************)
MaxTasks == 2

RecursionLimit == 1000

Queries == {"Compare X and Y", "Summarise Z"}

\* JavaScript's undefined where a string is expected: process.argv[2] of a
\* script started without an argument.
Undefined == "<undefined>"

Descs == {"Research X", "Research Y"}

BulkDesc == "Research item"

Results == {"Result-X", "Result-Y"}

BulkResult == "Result-item"

Reports == {"Report-A", "Report-B"}

NodeNames == {"planner", "roleAssigner", "executor", "reporter"}

\* Sequences over S of length 0..n.
SeqUpTo(S, n) == UNION {[1..k -> S] : k \in 0..n}

(***************************************************************************)
(* Schemas (src/main.ts 10-37).                                            *)
(***************************************************************************)
StdRole == [name |-> "Analyst", description |-> "Digs into sources",
            keySkills |-> <<"search", "reading", "synthesis">>]

TwoSkillRole == [name |-> "Scout", description |-> "Looks around",
                 keySkills |-> <<"search", "speed">>]

\* A role object the LLM may emit that lacks the required keySkills key.
BrokenRole == [name |-> "Ghost", description |-> "No skills listed"]

\* JSON values, as JSON.parse of the LLM's reply yields them.
JString(s) == [str |-> s]

JNumber(n) == [num |-> n]

JNull == [null |-> TRUE]

JArray(items) == [arr |-> items]

JObject(fields) == [obj |-> fields]

IsString(j) == DOMAIN j = {"str"}

IsArray(j) == DOMAIN j = {"arr"}

IsObject(j) == DOMAIN j = {"obj"}

\* z.string()
StringSchemaAccepts(j) == IsString(j)

\* z.array(z.string())
StringArraySchemaAccepts(j) ==
    /\ IsArray(j)
    /\ \A i \in DOMAIN j.arr : StringSchemaAccepts(j.arr[i])

\* z.object({name: z.string(), description: z.string(), keySkills: z.array(z.string())}):
\* the three keys are required and typed; the array's length is not constrained;
\* keys the schema does not name are allowed (and dropped by the parse).
RoleSchemaAccepts(j) ==
    /\ IsObject(j)
    /\ {"name", "description", "keySkills"} \subseteq DOMAIN j.obj
    /\ StringSchemaAccepts(j.obj.name)
    /\ StringSchemaAccepts(j.obj.description)
    /\ StringArraySchemaAccepts(j.obj.keySkills)

\* What RoleSchema's parse returns for an accepted value: the three named
\* keys, nothing else.
RoleSchemaParse(j) ==
    [name |-> j.obj.name.str,
     description |-> j.obj.description.str,
     keySkills |-> [i \in DOMAIN j.obj.keySkills.arr |-> j.obj.keySkills.arr[i].str]]

\* z.object({description: z.string(), role: RoleSchema.optional()}): role may
\* be absent; a role that is present (null included) must be a RoleSchema value.
TaskSchemaAccepts(j) ==
    /\ IsObject(j)
    /\ "description" \in DOMAIN j.obj
    /\ StringSchemaAccepts(j.obj.description)
    /\ ("role" \in DOMAIN j.obj => RoleSchemaAccepts(j.obj.role))

TaskSchemaParse(j) ==
    IF "role" \in DOMAIN j.obj
        THEN [description |-> j.obj.description.str, role |-> RoleSchemaParse(j.obj.role)]
        ELSE [description |-> j.obj.description.str]

\* z.object({tasks: z.array(TaskSchema)})
TasksWithRolesSchemaAccepts(j) ==
    /\ IsObject(j)
    /\ "tasks" \in DOMAIN j.obj
    /\ IsArray(j.obj.tasks)
    /\ \A i \in DOMAIN j.obj.tasks.arr : TaskSchemaAccepts(j.obj.tasks.arr[i])

TasksWithRolesSchemaParse(j) ==
    [tasks |-> [i \in DOMAIN j.obj.tasks.arr |-> TaskSchemaParse(j.obj.tasks.arr[i])]]

\* The state run() hands to graph.invoke (lines 217-223).
InitialState(query) ==
    [query |-> query, tasks |-> <<>>, currentTaskIndex |-> 0,
     results |-> <<>>, finalReport |-> ""]

\* Mutant of MergeUpdate: the update replaces the whole state, the fields it
\* does not name falling back to their initial values.
MergeReplacingState(s, upd) ==
    [k \in DOMAIN s |-> IF k \in DOMAIN upd THEN upd[k] ELSE InitialState("")[k]]

\* AgentStateSchema declares every field as a plain value (no reducer), so the
\* graph keeps each field in a last-value channel: a key present in a node's
\* partial update overwrites the field, an absent key leaves it as it was.
MergeUpdate(s, upd) ==
    [k \in DOMAIN s |-> IF k \in DOMAIN upd THEN upd[k] ELSE s[k]]

(***************************************************************************)
(* The external collaborators' possible answers.                           *)
(***************************************************************************)
\* Two long task lists: one whose run takes exactly recursionLimit node
\* executions (planner, roleAssigner, the passes, reporter), one longer than
\* the limit.
BulkLengths == {RecursionLimit - 3, RecursionLimit + 1}

BulkList(n) == [i \in 1..n |-> BulkDesc]

\* decomposedTasks.values: what QueryDecomposer.run may return.
ShortOutputs == SeqUpTo(Descs, MaxTasks)

DecomposerOutputs == ShortOutputs \cup {BulkList(n) : n \in BulkLengths}

\* The JSON an LLM writes for a role or a task made of strings: one JSON key
\* per key of the record.
RoleJson(r) ==
    JObject([k \in DOMAIN r |->
               IF k = "keySkills"
                   THEN JArray([i \in DOMAIN r.keySkills |-> JString(r.keySkills[i])])
                   ELSE JString(r[k])])

TaskJson(t) ==
    JObject([k \in DOMAIN t |-> IF k = "role" THEN RoleJson(t.role) ELSE JString(t[k])])

\* The JSON object j with key k set to the JSON value v.
WithKey(j, k, v) ==
    JObject([x \in DOMAIN j.obj \cup {k} |-> IF x = k THEN v ELSE j.obj[x]])

\* Task objects an LLM response may carry, well-formed or not.
RawTasks ==
    {TaskJson([description |-> d]) : d \in Descs}
      \cup {TaskJson([description |-> d, role |-> r]) :
              d \in Descs, r \in {StdRole, TwoSkillRole, BrokenRole}}
      \cup {TaskJson([role |-> StdRole])}

\* Task objects with a key the schemas do not name, or with a value of the
\* wrong type.
OddTasks ==
    LET x == TaskJson([description |-> "Research X", role |-> StdRole])
    IN  { WithKey(x, "priority", JString("high")),
          WithKey(x, "role", WithKey(RoleJson(StdRole), "rank", JString("senior"))),
          WithKey(x, "description", JNumber(5)),
          WithKey(x, "role", JString("Analyst")),
          WithKey(x, "role", JNull),
          WithKey(x, "role", WithKey(RoleJson(StdRole), "name", JNumber(42))),
          WithKey(x, "role", WithKey(RoleJson(StdRole), "keySkills", JString("search"))),
          WithKey(x, "role", WithKey(RoleJson(StdRole), "keySkills",
                                     JArray(<<JString("a"), JNumber(7)>>))) }

\* Replies that are not an object with an array under "tasks".
MalformedResponses ==
    { JObject([note |-> JString("no tasks key")]),
      JObject([tasks |-> JString("Research X")]),
      JObject([tasks |-> JObject([a |-> TaskJson([description |-> "Research X"])])]) }

\* The response that keeps length and order and gives every task StdRole.
AlignedResponse(tasks) ==
    JObject([tasks |-> JArray([i \in DOMAIN tasks |->
                TaskJson([description |-> tasks[i].description, role |-> StdRole])])])

\* Parsed JSON the LLM may answer the RoleAssigner prompt with: for a short
\* input any short list of task objects (any length, any order, with or
\* without roles) and the one-task lists of odd task objects, for every input
\* the aligned list and the replies that are not of the expected shape.
LLMResponses(tasks) ==
    (IF Len(tasks) <= MaxTasks
        THEN {JObject([tasks |-> JArray(ts)]) : ts \in SeqUpTo(RawTasks, MaxTasks)}
               \cup {JObject([tasks |-> JArray(<<t>>)]) : t \in OddTasks}
        ELSE {})
      \cup {AlignedResponse(tasks)}
      \cup MalformedResponses

\* Final message content of the react agent for a task.
AgentOutputs(task) ==
    IF task.description = BulkDesc THEN {BulkResult} ELSE Results

(***************************************************************************)
(* The components (src/main.ts 40-150).                                    *)
(***************************************************************************)
\* Mutant of PlannerRun: the tasks come out in reverse order.
PlannerRunReversed(values) ==
    [i \in DOMAIN values |-> [description |-> values[Len(values) + 1 - i]]]

\* Planner.run: decomposedTasks.values.map(task => ({description: task}))
PlannerRun(values) == [i \in DOMAIN values |-> [description |-> values[i]]]

\* Mutant of RoleAssignerRun: tasks that came back without a role are dropped.
RoleAssignerRunDroppingRoleless(resp) ==
    SelectSeq(TasksWithRolesSchemaParse(resp).tasks, LAMBDA t : "role" \in DOMAIN t)

\* RoleAssigner.run returns tasksWithRoles.tasks, tasksWithRoles being what
\* the parser made of the reply.
RoleAssignerRun(resp) == TasksWithRolesSchemaParse(resp).tasks

\* Executor.run dereferences task.role!.name before calling the agent: it
\* throws a TypeError when the task is undefined or carries no role.
ExecutorCanRead(tasks, i) ==
    /\ (i + 1) \in DOMAIN tasks
    /\ "role" \in DOMAIN tasks[i + 1]

\* Reporter.run: results.map((result, i) => `Info ${i + 1}:\n${result}`)
ReporterInfo(results) ==
    [i \in DOMAIN results |-> [label |-> i, text |-> results[i]]]

(***************************************************************************)
(* The graph (src/main.ts 169-226).                                        *)
(***************************************************************************)
\* setEntryPoint("planner")
EntryPoint == "planner"

\* Mutant of AfterPlanner: the planner wired straight to the executor.
AfterPlannerSkippingRoles == "executor"

\* addEdge("planner", "roleAssigner")
AfterPlanner == "roleAssigner"

\* addEdge("roleAssigner", "executor")
AfterRoleAssigner == "executor"

\* The conditional edge out of executor.
ContinueLoop(s) == s.currentTaskIndex < Len(s.tasks)

AfterExecutor(s) == IF ContinueLoop(s) THEN "executor" ELSE "reporter"

\* addEdge("reporter", END)
AfterReporter == "end"

\* Mutant of ExecutorUpdate: the index advanced by two.
ExecutorUpdateSkipping(s, result) ==
    [results |-> <<result>>, currentTaskIndex |-> s.currentTaskIndex + 2]

\* The partial update executeTask returns.
ExecutorUpdate(s, result) ==
    [results |-> <<result>>, currentTaskIndex |-> s.currentTaskIndex + 1]

\* Mutant of WithinLimit: the config is not passed to graph.invoke, which then
\* applies the library's default limit of 25.
WithinLimitDefault == step < 25

\* graph.invoke(initialState, {recursionLimit: 1000}): a node is run only while
\* the supersteps taken stay below the limit.
WithinLimit == step < RecursionLimit

CanRun(node) == pc = node /\ WithinLimit

Entered(node) == [nodeRuns EXCEPT ![node] = @ + 1]

\* Mutant of Propagate: the node's error is caught and the run carries on to
\* the reporter with what it has.
PropagateSwallowed(node, err) ==
    /\ pc' = "reporter"
    /\ error' = err
    /\ step' = step + 1
    /\ nodeRuns' = Entered(node)
    /\ UNCHANGED <<state, ret>>

\* An error thrown inside a node is not caught by the node, the graph or run():
\* the promise of run() rejects and no node runs afterwards.
Propagate(node, err) ==
    /\ pc' = "failed"
    /\ error' = err
    /\ step' = step + 1
    /\ nodeRuns' = Entered(node)
    /\ UNCHANGED <<state, ret>>

\* A node returned the partial update upd: it is merged and `next` is scheduled.
Commit(node, upd, next) ==
    /\ state' = MergeUpdate(state, upd)
    /\ pc' = next
    /\ step' = step + 1
    /\ nodeRuns' = Entered(node)
    /\ UNCHANGED <<ret, error>>

Init ==
    /\ pc = "idle"
    /\ state = InitialState("")
    /\ step = 0
    /\ ret = <<>>
    /\ error = ""
    /\ nodeRuns = [n \in NodeNames |-> 0]
    /\ outputs = <<>>
    /\ executed = <<>>
    /\ reporterInput = <<>>
    /\ decomposed = <<>>
    /\ returned = <<>>
    /\ lastOutcome = "none"
    /\ proc \in {[caller |-> "none", argv2 |-> q, stdout |-> <<>>, stderr |-> <<>>,
                   exit |-> <<>>] : q \in Queries \cup {Undefined}}

\* Where the latest run() call on this instance stands when the next is made.
Outcome ==
    IF pc = "done" THEN "returned"
    ELSE IF pc = "failed" THEN "rejected"
    ELSE IF pc = "idle" THEN "none"
    ELSE "pending"

\* Mutant of Run: the state object of the previous run is reused with the new
\* query instead of a fresh initial state.
RunReusingState ==
    /\ proc.caller # "main"
    /\ \E query \in Queries : state' = [state EXCEPT !.query = query]
    /\ pc' = EntryPoint
    /\ step' = 0
    /\ ret' = <<>>
    /\ error' = ""
    /\ nodeRuns' = [n \in NodeNames |-> 0]
    /\ outputs' = <<>>
    /\ executed' = <<>>
    /\ reporterInput' = <<>>
    /\ decomposed' = <<>>
    /\ returned' = <<>>
    /\ lastOutcome' = Outcome
    /\ proc' = [proc EXCEPT !.caller = "library"]

\* run(query), lines 216-224: a fresh initial state enters the graph at planner.
\* The class is exported: a caller holding an instance may call run() again
\* at any time, also while an earlier call is pending.  Each call hands its
\* own state object to graph.invoke and the calls share nothing, so the
\* variables follow the latest call; an earlier call that is still pending
\* goes on as in the behaviours in which no call overtakes it.
Run ==
    /\ proc.caller # "main"
    /\ \E query \in Queries : state' = InitialState(query)
    /\ pc' = EntryPoint
    /\ step' = 0
    /\ ret' = <<>>
    /\ error' = ""
    /\ nodeRuns' = [n \in NodeNames |-> 0]
    /\ outputs' = <<>>
    /\ executed' = <<>>
    /\ reporterInput' = <<>>
    /\ decomposed' = <<>>
    /\ returned' = <<>>
    /\ lastOutcome' = Outcome
    /\ proc' = [proc EXCEPT !.caller = "library"]

\* main, lines 230-239: run as a script, the module builds one instance and
\* calls agent.run(process.argv[2]) once.
Main ==
    /\ pc = "idle"
    /\ proc.caller = "none"
    /\ state' = InitialState(proc.argv2)
    /\ pc' = EntryPoint
    /\ proc' = [proc EXCEPT !.caller = "main"]
    /\ UNCHANGED <<step, ret, error, nodeRuns, outputs, executed, reporterInput,
                   decomposed, returned, lastOutcome>>

\* main, lines 231-238: the import of ./settings or one of the constructors
\* throws before agent.run is reached; main().catch prints the error and the
\* script ends with status 0, no node having run.
MainSetupFails ==
    /\ pc = "idle"
    /\ proc.caller = "none"
    /\ proc' = [proc EXCEPT !.caller = "main", !.stderr = Append(@, "SetupError"),
                            !.exit = <<0>>]
    /\ UNCHANGED <<pc, state, step, ret, error, nodeRuns, outputs, executed,
                   reporterInput, decomposed, returned, lastOutcome>>

\* main, line 240: console.log(result); the script then ends with status 0.
MainLog ==
    /\ proc.caller = "main"
    /\ proc.exit = <<>>
    /\ pc = "done"
    /\ proc' = [proc EXCEPT !.stdout = Append(@, ret[1]), !.exit = <<0>>]
    /\ UNCHANGED <<pc, state, step, ret, error, nodeRuns, outputs, executed,
                   reporterInput, decomposed, returned, lastOutcome>>

\* main().catch(console.error), line 243: the rejection is handled by printing
\* the error; nothing sets process.exitCode, so the script ends with status 0.
MainCatch ==
    /\ proc.caller = "main"
    /\ proc.exit = <<>>
    /\ pc = "failed"
    /\ proc' = [proc EXCEPT !.stderr = Append(@, error), !.exit = <<0>>]
    /\ UNCHANGED <<pc, state, step, ret, error, nodeRuns, outputs, executed,
                   reporterInput, decomposed, returned, lastOutcome>>

\* planTasks, lines 192-195, with the decomposer answering from `answers`.
PlanTasksFrom(answers) ==
    /\ CanRun("planner")
    /\ \/ \E values \in answers :
            /\ Commit("planner", [tasks |-> PlannerRun(values)], AfterPlanner)
            /\ decomposed' = <<values>>
       \/ /\ Propagate("planner", "DecomposerError")
          /\ UNCHANGED decomposed
    /\ UNCHANGED <<outputs, executed, reporterInput, returned, lastOutcome, proc>>

PlanTasks == PlanTasksFrom(DecomposerOutputs)

PlanShortTasks == PlanTasksFrom(ShortOutputs)

\* assignRoles, lines 197-200.
AssignRoles ==
    /\ CanRun("roleAssigner")
    /\ \/ \E resp \in LLMResponses(state.tasks) :
            IF TasksWithRolesSchemaAccepts(resp)
            THEN /\ Commit("roleAssigner", [tasks |-> RoleAssignerRun(resp)],
                           AfterRoleAssigner)
                 /\ returned' = <<resp.obj.tasks.arr>>
            ELSE /\ Propagate("roleAssigner", "OutputParserException")
                 /\ UNCHANGED returned
       \/ /\ Propagate("roleAssigner", "LLMError")
          /\ UNCHANGED returned
    /\ UNCHANGED <<outputs, executed, reporterInput, decomposed, lastOutcome, proc>>

\* executeTask, lines 202-209, followed by the conditional edge.
ExecuteTask ==
    /\ CanRun("executor")
    /\ LET i == state.currentTaskIndex IN
        /\ executed' = Append(executed, i)
        /\ IF ~ExecutorCanRead(state.tasks, i)
           THEN /\ Propagate("executor", "TypeError")
                /\ UNCHANGED outputs
           ELSE LET currentTask == state.tasks[i + 1] IN
                \/ \E result \in AgentOutputs(currentTask) :
                      LET upd == ExecutorUpdate(state, result) IN
                      /\ Commit("executor", upd, AfterExecutor(MergeUpdate(state, upd)))
                      /\ outputs' = Append(outputs, result)
                \/ /\ Propagate("executor", "AgentError")
                   /\ UNCHANGED outputs
    /\ returned' = <<>>
    /\ UNCHANGED <<reporterInput, decomposed, lastOutcome, proc>>

\* generateReport, lines 211-214, then the edge reporter -> END.
GenerateReport ==
    /\ CanRun("reporter")
    /\ reporterInput' = Append(reporterInput,
                               [query |-> state.query,
                                results |-> ReporterInfo(state.results)])
    /\ \/ \E report \in Reports :
            Commit("reporter", [finalReport |-> report], AfterReporter)
       \/ Propagate("reporter", "LLMError")
    /\ returned' = <<>>
    /\ UNCHANGED <<outputs, executed, decomposed, lastOutcome, proc>>

\* run(), line 225: return finalState.finalReport.
Return ==
    /\ pc = AfterReporter
    /\ ret' = <<state.finalReport>>
    /\ pc' = "done"
    /\ UNCHANGED <<state, step, error, nodeRuns, outputs, executed, reporterInput,
                   decomposed, returned, lastOutcome, proc>>

\* graph.invoke rejects with GraphRecursionError once the limit is used up.
\* With a node still scheduled that is the only outcome.  When the last node
\* finished on the very step that used the limit up, the graph library either
\* returns the final state or raises the error; both outcomes are kept.
RecursionAbort ==
    /\ pc \in NodeNames \cup {AfterReporter}
    /\ ~WithinLimit
    /\ pc' = "failed"
    /\ error' = "GraphRecursionError"
    /\ UNCHANGED <<state, step, ret, nodeRuns, outputs, executed, reporterInput,
                   decomposed, returned, lastOutcome, proc>>

Next ==
    \/ Run
    \/ Main
    \/ MainSetupFails
    \/ MainLog
    \/ MainCatch
    \/ PlanTasks
    \/ AssignRoles
    \/ ExecuteTask
    \/ GenerateReport
    \/ Return
    \/ RecursionAbort

Spec == Init /\ [][Next]_vars

\* The same program when the decomposer never returns more than MaxTasks
\* tasks.  The recursion limit is then out of reach, so RecursionAbort has no
\* step to take; every behaviour of SpecShort is a behaviour of Spec.
NextShort ==
    \/ Run
    \/ Main
    \/ MainSetupFails
    \/ MainLog
    \/ MainCatch
    \/ PlanShortTasks
    \/ AssignRoles
    \/ ExecuteTask
    \/ GenerateReport
    \/ Return

SpecShort == Init /\ [][NextShort]_vars

(***************************************************************************)
(* Shorthands used by the properties.                                      *)
(***************************************************************************)
\* The executor passes that returned (their update was merged).
Passes == Len(outputs)

NodeExecutions ==
    nodeRuns["planner"] + nodeRuns["roleAssigner"] + nodeRuns["executor"]
      + nodeRuns["reporter"]

\* The step is the first of a run: run() was called.
RunStarts == pc' = EntryPoint

\* The step is the script printing the settled run's outcome: nothing of the
\* run changes, no node runs.
ScriptPrints ==
    /\ proc' # proc
    /\ UNCHANGED <<pc, state, step, ret, error, nodeRuns, outputs, executed>>

\* The fields of AgentState other than those in `owned` keep their values.
FrameExcept(owned) ==
    /\ DOMAIN state' = DOMAIN state
    /\ \A k \in DOMAIN state \ owned : state'[k] = state[k]

HasThreeSkillRole(t) == "role" \in DOMAIN t /\ Len(t.role.keySkills) = 3

(***************************************************************************)
(* C1.  Executor loop invariant: after N executor passes, for every N from *)
(* 0 to tasks.length, currentTaskIndex = N and results.length = N: one     *)
(* result is appended per pass and none is lost in the merge.              *)
(* Stated as the claim has it; the code's merge overwrites results.       *)
(***************************************************************************)
C1_ExecutorLoopInvariant ==
    /\ state.currentTaskIndex = Passes
    /\ Len(state.results) = Passes

(***************************************************************************)
(* C2.  Whenever Reporter.run is called it receives the original query and *)
(* exactly one result per task, in task order: entry i is the Executor's   *)
(* output for tasks[i], after exactly tasks.length executor passes.        *)
(***************************************************************************)
C2_ReporterReceivesEveryResult ==
    \A k \in DOMAIN reporterInput :
        /\ reporterInput[k].query = state.query
        /\ executed = [i \in DOMAIN state.tasks |-> i - 1]
        /\ nodeRuns["executor"] = Len(state.tasks)
        /\ Len(reporterInput[k].results) = Len(state.tasks)
        /\ \A i \in DOMAIN reporterInput[k].results :
               /\ i \in DOMAIN outputs
               /\ reporterInput[k].results[i].text = outputs[i]

(***************************************************************************)
(* C3.  Empty-task boundary: with an empty task list on entry to the       *)
(* execution phase the executor node is never scheduled nor run (zero      *)
(* passes); the workflow goes from roleAssigner straight to reporter.      *)
(***************************************************************************)
C3_EmptyTaskListSkipsExecutor ==
    (nodeRuns["roleAssigner"] = 1 /\ Len(state.tasks) = 0)
        => (pc # "executor" /\ nodeRuns["executor"] = 0)

(***************************************************************************)
(* C4.  The loop hands over to reporter iff currentTaskIndex =             *)
(* tasks.length: reporter is never entered while currentTaskIndex <        *)
(* tasks.length and the executor is never run with currentTaskIndex >=     *)
(* tasks.length.                                                           *)
(***************************************************************************)
C4_LoopExitIffIndexAtLength ==
    /\ (pc = "reporter" \/ nodeRuns["reporter"] > 0)
           => state.currentTaskIndex = Len(state.tasks)
    /\ pc = "executor" => state.currentTaskIndex < Len(state.tasks)
    /\ \A k \in DOMAIN executed : executed[k] < Len(state.tasks)

(***************************************************************************)
(* C5.  In every state of a run 0 <= currentTaskIndex <= tasks.length; the *)
(* index is 0 through planner and roleAssigner, equals the number of       *)
(* executor passes made, and from one state to the next of the same run it *)
(* never decreases: it stays, or an executor pass adds exactly 1.          *)
(***************************************************************************)
C5_IndexInRange ==
    /\ 0 <= state.currentTaskIndex
    /\ state.currentTaskIndex <= Len(state.tasks)
    /\ pc \in {"idle", "planner", "roleAssigner"} => state.currentTaskIndex = 0
    /\ state.currentTaskIndex = Passes

C5_IndexStep ==
    \/ RunStarts
    \/ state'.currentTaskIndex = state.currentTaskIndex
    \/ /\ pc = "executor"
       /\ state'.currentTaskIndex = state.currentTaskIndex + 1

\* C5: the index stays within 0..tasks.length and never decreases within a run.
C5_IndexBoundedMonotone == []C5_IndexInRange /\ [][C5_IndexStep]_vars

C5_Witness ==
    /\ pc = "done"
    /\ Len(state.tasks) = 2
    /\ state.currentTaskIndex = 2

(***************************************************************************)
(* C6.  Step cap: a run never executes more nodes than recursionLimit      *)
(* (1000); with more tasks than the limit the reporter never executes and  *)
(* nothing is returned; the abort comes when the limit is used up, yields  *)
(* no report, and is final: after it only a new run() does anything (no    *)
(* retry).                                                                 *)
(***************************************************************************)
C6_CapInv ==
    /\ NodeExecutions <= RecursionLimit
    /\ step = NodeExecutions
    /\ Len(state.tasks) > RecursionLimit
           => /\ nodeRuns["reporter"] = 0
              /\ pc \notin {"reporter", "end", "done"}
              /\ ret = <<>>
    /\ error = "GraphRecursionError"
           => /\ pc = "failed"
              /\ ret = <<>>
              /\ NodeExecutions = RecursionLimit

C6_AbortIsFinal ==
    error = "GraphRecursionError" => (RunStarts \/ ScriptPrints)

\* C6: at most recursionLimit node executions; over-long lists abort before reporter.
C6_StepCap == []C6_CapInv /\ [][C6_AbortIsFinal]_vars

C6_Witness ==
    /\ pc = "failed"
    /\ error = "GraphRecursionError"
    /\ Len(state.tasks) > RecursionLimit
    /\ NodeExecutions = RecursionLimit

(***************************************************************************)
(* C7.  No partial failure: once a stage has failed, run() yields the      *)
(* error and never a report, whatever was accumulated; the failed stage is *)
(* not retried and no later stage runs (only a new run() follows).         *)
(***************************************************************************)
C7_FailureInv ==
    /\ error # "" => (pc = "failed" /\ ret = <<>>)
    /\ pc = "failed" => error # ""
    /\ ret # <<>> => (pc = "done" /\ error = "")

C7_FailureIsFinal ==
    (error # "" \/ pc = "failed") => (RunStarts \/ ScriptPrints)

\* C7: a failure ends the run with the error, no report, no retry, no later stage.
C7_NoPartialFailure == []C7_FailureInv /\ [][C7_FailureIsFinal]_vars

C7_Witness ==
    /\ pc = "failed"
    /\ error = "AgentError"
    /\ Len(state.results) > 0
    /\ nodeRuns["reporter"] = 0
    /\ ret = <<>>

(***************************************************************************)
(* C8.  Stage ordering: a run starts at planner; planner and roleAssigner  *)
(* run at most once, in that order, before any executor pass; reporter     *)
(* runs at most once, after the executor passes; no node runs after        *)
(* reporter; a completed run ran planner, roleAssigner and reporter        *)
(* exactly once each.                                                      *)
(***************************************************************************)
C8_OrderInv ==
    /\ nodeRuns["planner"] <= 1
    /\ nodeRuns["roleAssigner"] <= nodeRuns["planner"]
    /\ nodeRuns["reporter"] <= 1
    /\ nodeRuns["executor"] > 0 => nodeRuns["roleAssigner"] = 1
    /\ nodeRuns["reporter"] > 0 => nodeRuns["executor"] > 0
    /\ pc = "planner" => NodeExecutions = 0
    /\ pc \in {"end", "done"}
           => /\ nodeRuns["planner"] = 1
              /\ nodeRuns["roleAssigner"] = 1
              /\ nodeRuns["reporter"] = 1

C8_OrderStep ==
    /\ pc \in {"idle", "done", "failed"} => (pc' = "planner" \/ ScriptPrints)
    /\ nodeRuns'["planner"] > nodeRuns["planner"] => NodeExecutions = 0
    /\ nodeRuns'["roleAssigner"] > nodeRuns["roleAssigner"]
           => /\ nodeRuns["planner"] = 1
              /\ nodeRuns["executor"] = 0
              /\ nodeRuns["reporter"] = 0
    /\ nodeRuns'["executor"] > nodeRuns["executor"] => nodeRuns["reporter"] = 0
    /\ nodeRuns["reporter"] > 0 => (nodeRuns' = nodeRuns \/ RunStarts)

\* C8: planner, roleAssigner, executor passes, reporter, in that order, then nothing.
C8_StageOrdering == []C8_OrderInv /\ [][C8_OrderStep]_vars

C8_Witness ==
    /\ pc = "done"
    /\ nodeRuns["executor"] = 2
    /\ nodeRuns["reporter"] = 1

(***************************************************************************)
(* C9.  Frame of each node: planner and roleAssigner change only tasks,    *)
(* executor only results and currentTaskIndex, reporter only finalReport;  *)
(* no node changes query; nothing else changes the state but run().        *)
(***************************************************************************)
C9_FrameStep ==
    \/ RunStarts
    \/ /\ pc \in {"planner", "roleAssigner"} => FrameExcept({"tasks"})
       /\ pc = "executor" => FrameExcept({"results", "currentTaskIndex"})
       /\ pc = "reporter" => FrameExcept({"finalReport"})
       /\ pc = "end" => FrameExcept({})
       /\ pc \in NodeNames => state'.query = state.query

\* C9: each node changes only the fields it returns; no node changes query.
C9_NodeFrames == [][C9_FrameStep]_vars

C9_Witness ==
    /\ pc = "done"
    /\ state.query = "Compare X and Y"
    /\ Len(state.tasks) = 2
    /\ state.currentTaskIndex = 2
    /\ state.results # <<>>
    /\ state.finalReport = "Report-B"

(***************************************************************************)
(* C10.  For a non-empty input list, every Task of the list                *)
(* RoleAssigner.run returns (the list assignRoles stores in tasks) has a   *)
(* role with exactly 3 key skills; a response without them is rejected,    *)
(* never returned.                                                         *)
(***************************************************************************)
C10_RoleAssignerReturned ==
    /\ pc = "roleAssigner"
    /\ pc' = AfterRoleAssigner
    /\ Len(state.tasks) > 0

\* C10: a list returned for a non-empty input has a 3-skill role on every task.
C10_ReturnedTasksHaveThreeSkillRole ==
    [][C10_RoleAssignerReturned
          => \A i \in DOMAIN state'.tasks : HasThreeSkillRole(state'.tasks[i])]_vars

(***************************************************************************)
(* C11.  Planner.run returns one Task per string of the decomposer's       *)
(* output, in the same order, each with that string as description and no  *)
(* role key.  planTasks stores the returned list in tasks, so the list is  *)
(* read in the state the planner node leaves behind.                       *)
(***************************************************************************)
\* C11: after the planner node, tasks mirrors the decomposer's output
\* element by element: same length, same order, description only.
C11_PlannerMirrorsDecomposer ==
    pc = AfterPlanner =>
        /\ decomposed # <<>>
        /\ Len(state.tasks) = Len(decomposed[1])
        /\ \A i \in DOMAIN state.tasks :
              /\ DOMAIN state.tasks[i] = {"description"}
              /\ state.tasks[i].description = decomposed[1][i]

C11_Witness ==
    /\ pc = AfterPlanner
    /\ decomposed # <<>>
    /\ Len(decomposed[1]) = 2
    /\ decomposed[1][1] # decomposed[1][2]
    /\ state.tasks[1].description = decomposed[1][1]
    /\ state.tasks[2].description = decomposed[1][2]

(***************************************************************************)
(* C12.  Tasks are executed one at a time in task order: the executor      *)
(* passes are the passes k = 1..tasks.length, the k-th pass hands          *)
(* tasks[k-1] to Executor.run, no index is read twice or skipped, the loop *)
(* is left after exactly tasks.length passes, and a pass starts from the   *)
(* state in which the previous pass's update is already merged.            *)
(***************************************************************************)
C12_PassOrderInv ==
    /\ \A k \in DOMAIN executed : executed[k] = k - 1
    /\ Len(executed) <= Len(state.tasks)
    /\ pc \in {"reporter", AfterReporter, "done"} => Len(executed) = Len(state.tasks)

C12_PassStep ==
    /\ Len(executed') = Len(executed) + 1 =>
          /\ pc = "executor"
          /\ executed'[Len(executed')] = state.currentTaskIndex
          /\ pc' # "failed" => state'.currentTaskIndex = state.currentTaskIndex + 1
          /\ state'.tasks = state.tasks
          /\ nodeRuns'["executor"] = nodeRuns["executor"] + 1
    /\ ~RunStarts =>
          /\ Len(executed') \in {Len(executed), Len(executed) + 1}
          /\ NodeExecutions' \in {NodeExecutions, NodeExecutions + 1}

\* C12: the k-th executor pass, k = 1..tasks.length, reads tasks[k-1], one
\* pass at a time, each starting from the state the previous pass's update
\* was merged into.
C12_SequentialExecution == []C12_PassOrderInv /\ [][C12_PassStep]_vars

(***************************************************************************)
(* C13.  Termination: a run whose external calls (decomposer, LLM chains,  *)
(* react agent) all return without error and that stays within the step    *)
(* cap reaches the reporter and returns its report.  Stated on finished    *)
(* runs: a run stops short of the report only with the error of an         *)
(* external call or of the step cap, and a returned value is the           *)
(* Reporter's output stored in finalReport.                                *)
(***************************************************************************)
\* The errors an external call (or the parsing of its reply) raises.
ExternalErrors == {"DecomposerError", "LLMError", "OutputParserException", "AgentError"}

\* C13: with every external call succeeding and the step cap respected, the
\* run ends at the reporter's report, never in a failure.
C13_RunEndsWithReport ==
    /\ pc = "failed" => error \in ExternalErrors \cup {"GraphRecursionError"}
    /\ pc = "done" =>
          /\ nodeRuns["reporter"] = 1
          /\ state.finalReport \in Reports
          /\ ret = <<state.finalReport>>

(***************************************************************************)
(* C14.  The role assigner's output replaces the task list: the state the  *)
(* roleAssigner node leaves behind has tasks equal to the list of the      *)
(* LLM's reply, whatever its length or order relative to the planner's     *)
(* list, and no later node of the run changes tasks, so the loop runs over *)
(* the returned list.  As claimed the list is the reply verbatim; what     *)
(* holds is that it is the reply as TasksWithRolesSchema parses it: every  *)
(* task in place with its description and role, the keys the schemas do    *)
(* not name dropped.                                                       *)
(***************************************************************************)
\* The role r has the name, description and key skills of the JSON role j.
SameRole(r, j) ==
    /\ r.name = j.obj.name.str
    /\ r.description = j.obj.description.str
    /\ Len(r.keySkills) = Len(j.obj.keySkills.arr)
    /\ \A i \in DOMAIN r.keySkills : r.keySkills[i] = j.obj.keySkills.arr[i].str

\* The task t has the description of the JSON task j, and its role if any.
SameTask(t, j) ==
    /\ t.description = j.obj.description.str
    /\ "role" \in DOMAIN t <=> "role" \in DOMAIN j.obj
    /\ "role" \in DOMAIN t => SameRole(t.role, j.obj.role)

\* The task t has exactly the keys of the JSON task j, on both levels.
SameKeys(t, j) ==
    /\ DOMAIN t = DOMAIN j.obj
    /\ "role" \in DOMAIN t => DOMAIN t.role = DOMAIN j.obj.role.obj

C14_TasksAreReturnedVerbatim ==
    returned # <<>> =>
        /\ Len(state.tasks) = Len(returned[1])
        /\ \A i \in DOMAIN state.tasks :
              /\ SameTask(state.tasks[i], returned[1][i])
              /\ SameKeys(state.tasks[i], returned[1][i])

C14_TasksAreParsedReply ==
    returned # <<>> =>
        /\ Len(state.tasks) = Len(returned[1])
        /\ \A i \in DOMAIN state.tasks :
              /\ SameTask(state.tasks[i], returned[1][i])
              /\ DOMAIN state.tasks[i] \subseteq {"description", "role"}
              /\ "role" \in DOMAIN state.tasks[i] =>
                    DOMAIN state.tasks[i].role = {"name", "description", "keySkills"}

C14_TasksKeptStep ==
    /\ (pc \in {"executor", "reporter", AfterReporter} /\ ~RunStarts)
          => state'.tasks = state.tasks
    /\ (pc = "executor" /\ pc' \in {"executor", "reporter"})
          => (pc' = "executor" <=> state'.currentTaskIndex < Len(state'.tasks))

\* C14 as claimed: after roleAssigner, tasks is exactly the list the LLM
\* returned, key for key, and stays that list for the rest of the run.
C14_ReturnedListVerbatim ==
    []C14_TasksAreReturnedVerbatim /\ [][C14_TasksKeptStep]_vars

\* C14 as amended: after roleAssigner, tasks is the list the LLM returned as
\* the schema parses it (same length, same order, same descriptions and
\* roles, unnamed keys dropped), and stays that list for the rest of the run.
C14_ReturnedListReplacesTasks ==
    []C14_TasksAreParsedReply /\ [][C14_TasksKeptStep]_vars

C14_Witness ==
    /\ pc = "executor"
    /\ returned # <<>>
    /\ decomposed # <<>>
    /\ Len(decomposed[1]) = 2
    /\ Len(returned[1]) = 1
    /\ "priority" \in DOMAIN returned[1][1].obj
    /\ DOMAIN state.tasks[1] = {"description", "role"}
    /\ state.tasks[1].description = returned[1][1].obj.description.str

(***************************************************************************)
(* C15.  The executor's precondition holds at every invocation: whenever   *)
(* the executor node is about to run, currentTaskIndex < tasks.length and  *)
(* the task at that index has its role populated.                          *)
(***************************************************************************)
\* C15: a state about to run the executor node has a task at
\* currentTaskIndex, and that task has a role.
C15_ExecutorPrecondition ==
    (pc = "executor" /\ WithinLimit) =>
        /\ state.currentTaskIndex < Len(state.tasks)
        /\ "role" \in DOMAIN state.tasks[state.currentTaskIndex + 1]

(***************************************************************************)
(* C16.  Stateless across invocations: every call of run, the second call  *)
(* on an instance after a returned or rejected run included, starts the    *)
(* graph from {query, tasks: [], currentTaskIndex: 0, results: [],         *)
(* finalReport: ""} with a zero step count; nothing of the earlier run is  *)
(* left in what the new run reads.                                         *)
(***************************************************************************)
C16_FreshStartStep ==
    RunStarts =>
        /\ state' = [query |-> state'.query, tasks |-> <<>>, currentTaskIndex |-> 0,
                     results |-> <<>>, finalReport |-> ""]
        /\ state'.query \in Queries \cup {Undefined}
        /\ proc'.caller # "main" => state'.query \in Queries
        /\ proc'.caller = "main" => state'.query = proc.argv2
        /\ step' = 0
        /\ ret' = <<>>
        /\ error' = ""

\* C16: every call of run starts from the initial state built from its query.
C16_RunStartsFresh == [][C16_FreshStartStep]_vars

C16_Witness ==
    /\ pc = EntryPoint
    /\ lastOutcome = "returned"
    /\ state.query = "Compare X and Y"
    /\ state.tasks = <<>>
    /\ state.finalReport = ""

(***************************************************************************)
(* C17.  Top-level error outcome: when the run started by main fails, the  *)
(* script prints the error, prints no report, and the process ends with a  *)
(* non-zero exit status.                                                   *)
(***************************************************************************)
\* C17: a script whose run failed has printed the error and no report, and
\* has ended with a non-zero status.
C17_FailedScriptExitsNonZero ==
    (proc.caller = "main" /\ pc = "failed" /\ proc.exit # <<>>) =>
        /\ proc.stderr = <<error>>
        /\ proc.stdout = <<>>
        /\ proc.exit # <<0>>

====
